---- MODULE Spec2Model ----
(***************************************************************************)
(* ClickUp MCP server: credential resolution, configuration store,         *)
(* onboarding flow (full setup and auxiliary steps), hierarchy discovery   *)
(* and the task default resolver, as a state machine over concurrent tool  *)
(* invocations of one server process.                                      *)
(*                                                                         *)
(* Every awaited remote call is a suspension point: an action of the model *)
(* is the delivery of one response followed by the synchronous code up to  *)
(* and including the issue of the next remote call.                        *)
(***************************************************************************)
EXTENDS Integers, Sequences, FiniteSets, TLC

VARIABLES
    file,       \* config.json on disk
    env,        \* process.env.CLICKUP_API_KEY
    override,   \* _apiKeyOverride of api.js
    inv,        \* the tool invocations in flight, one record per slot
    started     \* how many invocations the host has started

vars == <<file, env, override, inv, started>>

\* the invocations the host starts in one run
MaxInvocations == 2

----------------------------------------------------------------------------
(* JavaScript values *)

Null == "<null>"
Undef == "<undefined>"

\* what reading a property gives when the object has no such property:
\* undefined to the reader, but not an own property holding undefined
Absent == "<absent>"

\* JS truthiness of a string-or-null-or-undefined value
Truthy(s) == s \notin {Null, Undef, Absent, ""}

\* a || b on such values
Or(a, b) == IF Truthy(a) THEN a ELSE b

\* optional numbers and booleans: <<>> is undefined, <<v>> is the value v
None == <<>>
Some(v) == <<v>>
IsSome(o) == Len(o) > 0
Val(o) == o[1]

\* o ?? d
Coalesce(o, d) == IF IsSome(o) THEN Val(o) ELSE d

\* String(n) for the numeric identifiers the remote API returns
String(n) == CASE n = 42 -> "42" [] n = 7 -> "7" [] n = 9 -> "9" [] OTHER -> "NaN"

\* Number(s) for identifier strings
Number(s) == CASE s = "42" -> 42 [] s = "7" -> 7 [] s = "9" -> 9 [] s = "" -> 0 [] OTHER -> -1

----------------------------------------------------------------------------
(* Configuration store *)

NoDefaults == [assignee_self |-> None, priority |-> None, tags |-> None,
               due_date_offset_days |-> None]

NoRecord == [api_key |-> Undef, workspace_id |-> Undef, workspace_name |-> Undef,
             default_list_id |-> Undef, default_list_name |-> Undef,
             user_id |-> Undef, user_name |-> Undef, user_email |-> Undef,
             defaults |-> NoDefaults]

DEFAULT_CONFIG ==
    [api_key |-> Null, workspace_id |-> Null, workspace_name |-> Null,
     default_list_id |-> Null, default_list_name |-> Null,
     user_id |-> Null, user_name |-> Null, user_email |-> Null,
     defaults |-> [assignee_self |-> Some(TRUE), priority |-> Some(3),
                   tags |-> Some(<<"via-claude">>), due_date_offset_days |-> Some(1)]]

FileMissing == [st |-> "missing", rec |-> NoRecord]
FileCorrupt == [st |-> "corrupt", rec |-> NoRecord]

\* JSON.stringify leaving out the null properties as well
JsonStringifyCompact(config) ==
    [k \in {f \in DOMAIN config : f = "defaults" \/ config[f] \notin {Undef, Null}} |->
        IF k = "defaults"
        THEN [d \in {f \in DOMAIN config[k] : IsSome(config[k][f])} |-> config[k][d]]
        ELSE config[k]]

\* JSON.stringify(config): the text holds the properties whose value is not
\* undefined; null is written as null
JsonStringify(config) ==
    [k \in {f \in DOMAIN config : f = "defaults" \/ config[f] # Undef} |->
        IF k = "defaults"
        THEN [d \in {f \in DOMAIN config[k] : IsSome(config[k][f])} |-> config[k][d]]
        ELSE config[k]]

\* JSON.parse(text): an object with the properties of the text
JsonParse(text) ==
    [k \in DOMAIN NoRecord |->
        IF k = "defaults"
        THEN [d \in DOMAIN NoDefaults |->
                IF k \in DOMAIN text /\ d \in DOMAIN text[k] THEN text[k][d] ELSE None]
        ELSE IF k \in DOMAIN text THEN text[k] ELSE Absent]

\* loadConfig(): null when the file is missing or does not parse
LoadConfig(f) == IF f.st = "ok" THEN [some |-> TRUE, rec |-> JsonParse(f.rec)]
                 ELSE [some |-> FALSE, rec |-> NoRecord]

\* the file content writeFileSync leaves after JSON.stringify(config)
SaveConfig(config) == [st |-> "ok", rec |-> JsonStringify(config)]

\* config?.field
OptField(cfg, fld) == IF cfg.some THEN cfg.rec[fld] ELSE Undef

----------------------------------------------------------------------------
(* Credential resolver *)

\* getApiKey of config.js: env var, then config.json, then null
ConfigGetApiKey(e, f) ==
    IF Truthy(e) THEN e
    ELSE IF Truthy(OptField(LoadConfig(f), "api_key"))
         THEN OptField(LoadConfig(f), "api_key")
         ELSE Null

\* getApiKey of api.js: the override, then config.js; Null stands for the throw
ApiGetApiKey(ov, e, f) ==
    IF Truthy(ov) THEN ov ELSE ConfigGetApiKey(e, f)

----------------------------------------------------------------------------
(* The remote API: what each endpoint answers when the call succeeds *)

Keys == {"K1", "K2", "K0"}

\* GET /user, for the credential the request carries
UserOf(k) ==
    CASE k = "K1" -> [id |-> 42, username |-> "ann", email |-> "ann@x"]
      [] k = "K2" -> [id |-> 7, username |-> "bob", email |-> "bob@x"]
      [] OTHER    -> [id |-> 9, username |-> "cy", email |-> "cy@x"]

\* GET /team, for the credential the request carries; K0 has no workspace
TeamsOf(k) ==
    CASE k = "K1" -> <<[id |-> "W1", name |-> "Acme"], [id |-> "W2", name |-> "Beta"]>>
      [] k = "K2" -> <<[id |-> "W3", name |-> "Gamma"]>>
      [] k = "KE" -> <<[id |-> "W1", name |-> "Acme"]>>
      [] OTHER    -> <<>>

\* GET /team/{id}/space
SpacesOf(w) ==
    CASE w = "W1" -> <<[id |-> "S0", name |-> "Solo"]>>
      [] w = "W2" -> <<[id |-> "S1", name |-> "Eng"], [id |-> "S2", name |-> "Ops"]>>
      [] OTHER    -> <<>>

\* GET /space/{id}/list
FolderlessOf(s) ==
    CASE s = "S0" -> <<[id |-> "L0", name |-> "Inbox"]>>
      [] s = "S1" -> <<[id |-> "L1", name |-> "Backlog"]>>
      [] s = "S2" -> <<[id |-> "L4", name |-> "Runbook"]>>
      [] OTHER    -> <<>>

\* GET /space/{id}/folder
FoldersOf(s) ==
    CASE s = "S0" -> <<[id |-> "F0", name |-> "Misc"]>>
      [] s = "S1" -> <<[id |-> "F1", name |-> "Sprints"], [id |-> "F2", name |-> "Archive"]>>
      [] OTHER    -> <<>>

\* GET /folder/{id}/list
ListsOf(f) ==
    CASE f = "F1" -> <<[id |-> "L2", name |-> "Sprint 1"]>>
      [] f = "F2" -> <<[id |-> "L3", name |-> "Old"]>>
      [] OTHER    -> <<>>

----------------------------------------------------------------------------
(* The API clients *)

\* what a request() of api.js does up to its fetch: resolve the credential
\* through headers(); sent = FALSE stands for the throw of getApiKey
IssueApi(ep, arg, ov, f) ==
    LET c == ApiGetApiKey(ov, env, f)
    IN [ep |-> ep, arg |-> arg, via |-> "api", sent |-> c # Null, cred |-> c,
        ov |-> ov, env |-> env, pk |-> OptField(LoadConfig(f), "api_key")]

\* IssueChat without the check  if (!apiKey) throw
IssueChatUnchecked(ep, arg, ov, f) ==
    [IssueApi(ep, arg, ov, f) EXCEPT !.via = "chat", !.sent = TRUE,
                                     !.cred = ConfigGetApiKey(env, f)]

\* what requestV3 of the chat tools does up to its fetch
IssueChat(ep, arg, ov, f) ==
    LET c == ConfigGetApiKey(env, f)
    IN [ep |-> ep, arg |-> arg, via |-> "chat", sent |-> c # Null, cred |-> c,
        ov |-> ov, env |-> env, pk |-> OptField(LoadConfig(f), "api_key")]

NoCall == [ep |-> "none", arg |-> "", via |-> "none", sent |-> FALSE, cred |-> Null,
           ov |-> Null, env |-> Null, pk |-> Undef]

\* the ways an issued call can end: the throw of getApiKey before any fetch,
\* or the answer (or failure) of the fetch
Outcomes(c) == IF c.sent THEN {"ok", "http_error"} ELSE {"not_configured"}

\* the Error a failed call rejects with
ErrorOf(c, o) ==
    IF o = "not_configured"
    THEN [kind |-> "NotConfigured",
          msg |-> IF c.via = "chat"
                  THEN "No API key configured. Run clickup_onboarding first."
                  ELSE "No API key configured. Run clickup_onboarding with your API key first."]
    ELSE [kind |-> "RemoteCallFailed",
          msg |-> IF c.via = "chat" THEN "ClickUp API v3 <status>" ELSE "ClickUp API <status>"]

----------------------------------------------------------------------------
(* Tool invocations *)

NoResult == [kind |-> "none", isError |-> FALSE, msg |-> ""]

\* text(msg)
Text(kind) == [kind |-> kind, isError |-> FALSE, msg |-> ""]

\* { content: "Error: " + err.message, isError: true }
ErrorResult(err) == [kind |-> err.kind, isError |-> TRUE, msg |-> err.msg]

\* a timestamp in milliseconds, as days since the epoch and milliseconds of the day
Ts(d, ms) == [d |-> d, ms |-> ms]

NoBody == [list |-> Undef, assignees |-> None, tags |-> None, priority |-> None,
           due_date |-> None]

NoUser == [id |-> 0, username |-> "", email |-> ""]
NoWorkspace == [id |-> "", name |-> ""]

Idle == [op |-> "idle", pc |-> "idle", p |-> <<>>, pend |-> NoCall,
         user |-> NoUser, teams |-> <<>>, ws |-> NoWorkspace,
         spaces |-> <<>>, si |-> 0, folders |-> <<>>, fi |-> 0,
         allLists |-> <<>>, fetched |-> <<>>, body |-> NoBody,
         result |-> NoResult, wrote |-> FALSE, config |-> NoRecord]

\* an invocation that has issued call c and is suspended at position pc
Await(st, pc, c) == [st EXCEPT !.pc = pc, !.pend = c]

\* an invocation that has returned result r (pend stays: the last call issued)
Return(st, r) == [st EXCEPT !.pc = "done", !.result = r]

Inv == DOMAIN inv

SetInv(i, st) == inv' = [inv EXCEPT ![i] = st]

\* the host starts a handler in the first free slot
Free(i) ==
    /\ started < MaxInvocations
    /\ started' = started + 1
    /\ inv[i].op = "idle"
    /\ \A j \in Inv : j < i => inv[j].op # "idle"

Begin(i, op, p) == [Idle EXCEPT !.op = op, !.p = p]

----------------------------------------------------------------------------
(* Onboarding: parameters *)

NoParams == [api_key |-> Undef, step |-> Undef, workspace_id |-> Undef,
             list_id |-> Undef, list_name |-> Undef, priority |-> None,
             tags |-> None, due_date_offset_days |-> None, assignee_self |-> None]

\* s.trim() on the pieces of a comma-separated string
Trim(x) == CASE x = " ops" -> "ops" [] x = " 7" -> "7" [] x = " 9" -> "9" [] x = " " -> "" [] OTHER -> x

\* a comma-separated string is the sequence of its pieces: "" is <<"">>
StrTruthy(pieces) == pieces # <<"">>

\* str.split(",").map((t) => t.trim())
SplitTrim(pieces) == [k \in 1 .. Len(pieces) |-> Trim(pieces[k])]

----------------------------------------------------------------------------
(* Onboarding: full setup *)

\* BuildConfig with priority: params.priority, no fallback
BuildConfigPriorityAsGiven(p, user, ws) ==
    [api_key |-> p.api_key,
     workspace_id |-> ws.id,
     workspace_name |-> ws.name,
     default_list_id |-> Or(p.list_id, Null),
     default_list_name |-> Or(p.list_name, Null),
     user_id |-> String(user.id),
     user_name |-> user.username,
     user_email |-> user.email,
     defaults |->
        [assignee_self |-> Some(Coalesce(p.assignee_self, TRUE)),
         priority |-> p.priority,
         tags |-> Some(IF IsSome(p.tags) /\ StrTruthy(Val(p.tags))
                       THEN SplitTrim(Val(p.tags)) ELSE <<"via-claude">>),
         due_date_offset_days |-> Some(Coalesce(p.due_date_offset_days, 1))]]

\* BuildConfig with no fallback for tags
BuildConfigTagsAsGiven(p, user, ws) ==
    [api_key |-> p.api_key,
     workspace_id |-> ws.id,
     workspace_name |-> ws.name,
     default_list_id |-> Or(p.list_id, Null),
     default_list_name |-> Or(p.list_name, Null),
     user_id |-> String(user.id),
     user_name |-> user.username,
     user_email |-> user.email,
     defaults |->
        [assignee_self |-> Some(Coalesce(p.assignee_self, TRUE)),
         priority |-> Some(IF IsSome(p.priority) /\ Val(p.priority) # 0
                           THEN Val(p.priority) ELSE 3),
         tags |-> IF IsSome(p.tags) /\ StrTruthy(Val(p.tags))
                  THEN Some(SplitTrim(Val(p.tags))) ELSE None,
         due_date_offset_days |-> Some(Coalesce(p.due_date_offset_days, 1))]]

\* the record fullSetup builds
BuildConfig(p, user, ws) ==
    [api_key |-> p.api_key,
     workspace_id |-> ws.id,
     workspace_name |-> ws.name,
     default_list_id |-> Or(p.list_id, Null),
     default_list_name |-> Or(p.list_name, Null),
     user_id |-> String(user.id),
     user_name |-> user.username,
     user_email |-> user.email,
     defaults |->
        [assignee_self |-> Some(Coalesce(p.assignee_self, TRUE)),
         priority |-> Some(IF IsSome(p.priority) /\ Val(p.priority) # 0
                           THEN Val(p.priority) ELSE 3),
         tags |-> Some(IF IsSome(p.tags) /\ StrTruthy(Val(p.tags))
                       THEN SplitTrim(Val(p.tags)) ELSE <<"via-claude">>),
         due_date_offset_days |-> Some(Coalesce(p.due_date_offset_days, 1))]]

\* teams.find((t) => String(t.id) === params.workspace_id) || teams[0]
SelectWorkspace(teams, wid) ==
    LET hits == {k \in 1 .. Len(teams) : teams[k].id = wid}
    IN IF hits = {} THEN teams[1]
       ELSE teams[CHOOSE k \in hits : \A m \in hits : k <= m]

\* the ways writeFileSync can end: written, or a throw that left the file as it
\* was (it could not be opened) or truncated (the write broke off)
WriteOutcomes == {"written", "failed_untouched", "failed_partial"}

\* FullSetupFail reporting the error as an ordinary text result
FullSetupFailQuiet(i, st, err) ==
    /\ override' = Null
    /\ SetInv(i, Return(st, [kind |-> err.kind, isError |-> FALSE, msg |-> err.msg]))

\* catch (err) { setApiKeyOverride(null); throw err; } and the handler's catch
FullSetupFail(i, st, err) ==
    /\ override' = Null
    /\ SetInv(i, Return(st, ErrorResult(err)))

\* FullSetupCatch with the record built so far persisted by the catch block
FullSetupCatchSavesPartial(i, st, err) ==
    /\ override' = Null
    /\ file' = SaveConfig(BuildConfig(st.p, st.user, st.ws))
    /\ SetInv(i, Return([st EXCEPT !.wrote = TRUE], ErrorResult(err)))

\* a remote call on the critical path of fullSetup rejects
FullSetupCatch(i, st, err) ==
    /\ FullSetupFail(i, st, err)
    /\ UNCHANGED file

\* FullSetupSave keeping the defaults of the record on disk when there is one
FullSetupSaveKeepingDefaults(i, st) ==
    LET built == BuildConfig(st.p, st.user, st.ws)
        onDisk == LoadConfig(file)
        config == IF onDisk.some THEN [built EXCEPT !.defaults = onDisk.rec.defaults]
                  ELSE built
    IN /\ file' = SaveConfig(config)
       /\ override' = Null
       /\ SetInv(i, Return([st EXCEPT !.wrote = TRUE, !.config = config],
                           Text("Configured")))

\* FullSetupSave writing its record over the one on disk field by field, the
\* default list of the record on disk kept
FullSetupSaveMerging(i, st) ==
    LET config == BuildConfig(st.p, st.user, st.ws)
        onDisk == LoadConfig(file)
    IN /\ file' = SaveConfig(IF onDisk.some
                             THEN [config EXCEPT
                                     !.default_list_id = onDisk.rec.default_list_id,
                                     !.default_list_name = onDisk.rec.default_list_name]
                             ELSE config)
       /\ override' = Null
       /\ SetInv(i, Return([st EXCEPT !.wrote = TRUE, !.config = config],
                           Text("Configured")))

\* steps 4 to 6 of fullSetup: build the record, save it, clear the override
FullSetupSave(i, st) ==
    \E w \in WriteOutcomes :
        LET config == BuildConfig(st.p, st.user, st.ws)
        IN IF w = "written"
           THEN /\ file' = SaveConfig(config)
                /\ override' = Null
                /\ SetInv(i, Return([st EXCEPT !.wrote = TRUE, !.config = config],
                                    Text("Configured")))
           ELSE /\ file' = IF w = "failed_partial" THEN FileCorrupt ELSE file
                /\ FullSetupFail(i, [st EXCEPT !.wrote = (w = "failed_partial"),
                                               !.config = config],
                                 [kind |-> "SaveFailed", msg |-> "<errno>"])

\* the end of the discovery loop
EndDiscovery(i, st) ==
    IF st.op = "full_setup"
    THEN FullSetupSave(i, st)
    ELSE /\ SetInv(i, Return(st, Text("ListsShown")))
         /\ UNCHANGED <<file, override>>

\* the head of  for (const space of spaces || [])
NextSpace(i, st) ==
    IF st.si < Len(st.spaces)
    THEN /\ SetInv(i, Await([st EXCEPT !.si = @ + 1, !.folders = <<>>, !.fi = 0],
                            "folderless",
                            IssueApi("getFolderlessLists", st.spaces[st.si + 1].id,
                                     override, file)))
         /\ UNCHANGED <<file, override>>
    ELSE EndDiscovery(i, st)

\* the record of how the pending fetch of the discovery loop ended
Fetched(st, ok) ==
    [st EXCEPT !.fetched = Append(@, [ep |-> st.pend.ep, arg |-> st.pend.arg, ok |-> ok])]

\* PushLists putting the new entries in front
PushListsInFront(st, lists, folderName) ==
    [st EXCEPT !.allLists = [k \in 1 .. Len(lists) |->
        [id |-> lists[k].id, name |-> lists[k].name,
         space |-> st.spaces[st.si].name, folder |-> folderName]] \o @]

\* allLists.push({ id, name, space, folder }) for every list of an answer
PushLists(st, lists, folderName) ==
    [st EXCEPT !.allLists = @ \o [k \in 1 .. Len(lists) |->
        [id |-> lists[k].id, name |-> lists[k].name,
         space |-> st.spaces[st.si].name, folder |-> folderName]]]

\* try { getFolderlessLists } catch {}  then the call of getFolders
DiscFolderless(i) ==
    /\ inv[i].pc = "folderless"
    /\ \E o \in Outcomes(inv[i].pend) :
        LET st == IF o = "ok"
                  THEN PushLists(Fetched(inv[i], TRUE), FolderlessOf(inv[i].pend.arg), Null)
                  ELSE Fetched(inv[i], FALSE)
        IN SetInv(i, Await(st, "folders",
                           IssueApi("getFolders", st.spaces[st.si].id, override, file)))
    /\ UNCHANGED <<file, env, override, started>>

\* the head of  for (const folder of folders || [])
NextFolder(i, st) ==
    IF st.fi < Len(st.folders)
    THEN /\ SetInv(i, Await([st EXCEPT !.fi = @ + 1], "lists",
                            IssueApi("getListsInFolder", st.folders[st.fi + 1].id,
                                     override, file)))
         /\ UNCHANGED <<file, override>>
    ELSE NextSpace(i, st)

\* DiscFolders with the failure of getFolders ending the whole loop
DiscFoldersAborts(i) ==
    /\ inv[i].pc = "folders"
    /\ \E o \in Outcomes(inv[i].pend) :
        IF o = "ok"
        THEN NextFolder(i, [Fetched(inv[i], TRUE) EXCEPT
                                !.folders = FoldersOf(inv[i].pend.arg), !.fi = 0])
        ELSE EndDiscovery(i, Fetched(inv[i], FALSE))
    /\ UNCHANGED <<env, started>>

\* try { getFolders ... } catch {}
DiscFolders(i) ==
    /\ inv[i].pc = "folders"
    /\ \E o \in Outcomes(inv[i].pend) :
        IF o = "ok"
        THEN NextFolder(i, [Fetched(inv[i], TRUE) EXCEPT
                                !.folders = FoldersOf(inv[i].pend.arg), !.fi = 0])
        ELSE NextSpace(i, Fetched(inv[i], FALSE))
    /\ UNCHANGED <<env, started>>

\* try { getListsInFolder } catch {}
DiscLists(i) ==
    /\ inv[i].pc = "lists"
    /\ \E o \in Outcomes(inv[i].pend) :
        NextFolder(i, IF o = "ok"
                      THEN PushLists(Fetched(inv[i], TRUE), ListsOf(inv[i].pend.arg),
                                     inv[i].folders[inv[i].fi].name)
                      ELSE Fetched(inv[i], FALSE))
    /\ UNCHANGED <<env, started>>

\* if (params.api_key) fullSetup: set the override, call getAuthorizedUser
FullSetupStart(i, p) ==
    /\ Free(i)
    /\ Truthy(p.api_key)
    /\ override' = p.api_key
    /\ SetInv(i, Await(Begin(i, "full_setup", p), "user",
                       IssueApi("getAuthorizedUser", "", p.api_key, file)))
    /\ UNCHANGED <<file, env>>

\* FullSetupUser with the credential of the invocation handed to the call
FullSetupUserOwnKey(i) ==
    /\ inv[i].op = "full_setup" /\ inv[i].pc = "user"
    /\ \E o \in Outcomes(inv[i].pend) :
        IF o = "ok"
        THEN /\ SetInv(i, Await([inv[i] EXCEPT !.user = UserOf(inv[i].pend.cred)],
                                "teams",
                                IssueApi("getTeams", "", inv[i].p.api_key, file)))
             /\ UNCHANGED <<file, override>>
        ELSE FullSetupCatch(i, inv[i], ErrorOf(inv[i].pend, o))
    /\ UNCHANGED <<env, started>>

\* const { user } = await api.getAuthorizedUser(); then the call of getTeams
FullSetupUser(i) ==
    /\ inv[i].op = "full_setup" /\ inv[i].pc = "user"
    /\ \E o \in Outcomes(inv[i].pend) :
        IF o = "ok"
        THEN /\ SetInv(i, Await([inv[i] EXCEPT !.user = UserOf(inv[i].pend.cred)],
                                "teams", IssueApi("getTeams", "", override, file)))
             /\ UNCHANGED <<file, override>>
        ELSE FullSetupCatch(i, inv[i], ErrorOf(inv[i].pend, o))
    /\ UNCHANGED <<env, started>>

\* const { teams } = await api.getTeams(); the early return; the selection of
\* the workspace; the call of getSpaces
FullSetupTeams(i) ==
    /\ inv[i].op = "full_setup" /\ inv[i].pc = "teams"
    /\ \E o \in Outcomes(inv[i].pend) :
        IF o = "ok"
        THEN LET teams == TeamsOf(inv[i].pend.cred)
             IN IF Len(teams) = 0
                THEN /\ SetInv(i, Return(inv[i], Text("NoWorkspaces")))
                     /\ UNCHANGED <<file, override>>
                ELSE LET ws == SelectWorkspace(teams, inv[i].p.workspace_id)
                     IN /\ SetInv(i, Await([inv[i] EXCEPT !.teams = teams, !.ws = ws],
                                           "spaces",
                                           IssueApi("getSpaces", ws.id, override, file)))
                        /\ UNCHANGED <<file, override>>
        ELSE FullSetupCatch(i, inv[i], ErrorOf(inv[i].pend, o))
    /\ UNCHANGED <<env, started>>

\* const { spaces } = await api.getSpaces(workspace.id); into the loop
FullSetupSpaces(i) ==
    /\ inv[i].op = "full_setup" /\ inv[i].pc = "spaces"
    /\ \E o \in Outcomes(inv[i].pend) :
        IF o = "ok"
        THEN NextSpace(i, [inv[i] EXCEPT !.spaces = SpacesOf(inv[i].pend.arg),
                                         !.si = 0])
        ELSE FullSetupCatch(i, inv[i], ErrorOf(inv[i].pend, o))
    /\ UNCHANGED <<env, started>>

FullSetupFolderless(i) == inv[i].op = "full_setup" /\ DiscFolderless(i)

FullSetupFolders(i) == inv[i].op = "full_setup" /\ DiscFolders(i)

FullSetupLists(i) == inv[i].op = "full_setup" /\ DiscLists(i)

----------------------------------------------------------------------------
(* Onboarding: auxiliary steps *)

\* stepChooseList up to its first await
ChooseListStart(i, p) ==
    /\ Free(i)
    /\ ~Truthy(p.api_key) /\ p.step = "choose_list"
    /\ LET teamId == Or(p.workspace_id, OptField(LoadConfig(file), "workspace_id"))
           st == Begin(i, "choose_list", p)
       IN IF ~Truthy(teamId)
          THEN SetInv(i, Return(st, Text("NotConfigured")))
          ELSE SetInv(i, Await(st, "spaces", IssueApi("getSpaces", teamId, override, file)))
    /\ UNCHANGED <<file, env, override>>

\* const { spaces } = await api.getSpaces(teamId); a throw reaches the handler
ChooseListSpaces(i) ==
    /\ inv[i].op = "choose_list" /\ inv[i].pc = "spaces"
    /\ \E o \in Outcomes(inv[i].pend) :
        IF o = "ok"
        THEN NextSpace(i, [inv[i] EXCEPT !.spaces = SpacesOf(inv[i].pend.arg),
                                         !.si = 0])
        ELSE /\ SetInv(i, Return(inv[i], ErrorResult(ErrorOf(inv[i].pend, o))))
             /\ UNCHANGED <<file, override>>
    /\ UNCHANGED <<env, started>>

ChooseListFolderless(i) == inv[i].op = "choose_list" /\ DiscFolderless(i)

ChooseListFolders(i) == inv[i].op = "choose_list" /\ DiscFolders(i)

ChooseListLists(i) == inv[i].op = "choose_list" /\ DiscLists(i)

\* MergeConfig with || in place of ?? for assignee_self and due_date_offset_days
MergeConfigFalsy(existing, p) ==
    [existing EXCEPT
        !.workspace_id = IF Truthy(p.workspace_id) THEN p.workspace_id ELSE @,
        !.default_list_id = IF Truthy(p.list_id) THEN p.list_id ELSE @,
        !.default_list_name = IF Truthy(p.list_name) THEN p.list_name ELSE @,
        !.defaults =
            [assignee_self |->
                Some(IF IsSome(p.assignee_self) /\ Val(p.assignee_self) THEN TRUE
                     ELSE IF IsSome(@.assignee_self) /\ Val(@.assignee_self) THEN TRUE
                     ELSE TRUE),
             priority |->
                Some(IF IsSome(p.priority) /\ Val(p.priority) # 0
                     THEN Val(p.priority)
                     ELSE IF IsSome(@.priority) /\ Val(@.priority) # 0
                          THEN Val(@.priority) ELSE 3),
             tags |->
                Some(IF IsSome(p.tags) /\ StrTruthy(Val(p.tags))
                     THEN SplitTrim(Val(p.tags))
                     ELSE Coalesce(@.tags, <<"via-claude">>)),
             due_date_offset_days |->
                Some(IF IsSome(p.due_date_offset_days) /\ Val(p.due_date_offset_days) # 0
                     THEN Val(p.due_date_offset_days)
                     ELSE IF IsSome(@.due_date_offset_days)
                             /\ Val(@.due_date_offset_days) # 0
                          THEN Val(@.due_date_offset_days) ELSE 1)]]

\* the record stepSave builds from the existing one
MergeConfig(existing, p) ==
    [existing EXCEPT
        !.workspace_id = IF Truthy(p.workspace_id) THEN p.workspace_id ELSE @,
        !.default_list_id = IF Truthy(p.list_id) THEN p.list_id ELSE @,
        !.default_list_name = IF Truthy(p.list_name) THEN p.list_name ELSE @,
        !.defaults =
            [assignee_self |->
                Some(Coalesce(p.assignee_self, Coalesce(@.assignee_self, TRUE))),
             priority |->
                Some(IF IsSome(p.priority) /\ Val(p.priority) # 0
                     THEN Val(p.priority)
                     ELSE IF IsSome(@.priority) /\ Val(@.priority) # 0
                          THEN Val(@.priority) ELSE 3),
             tags |->
                Some(IF IsSome(p.tags) /\ StrTruthy(Val(p.tags))
                     THEN SplitTrim(Val(p.tags))
                     ELSE Coalesce(@.tags, <<"via-claude">>)),
             due_date_offset_days |->
                Some(Coalesce(p.due_date_offset_days,
                              Coalesce(@.due_date_offset_days, 1)))]]

\* StepSave falling back to DEFAULT_CONFIG when no record exists
StepSaveFromDefault(i, p) ==
    /\ Free(i)
    /\ ~Truthy(p.api_key) /\ p.step = "save"
    /\ LET cfg == LoadConfig(file)
           existing == IF cfg.some THEN cfg.rec ELSE DEFAULT_CONFIG
       IN /\ file' = SaveConfig(MergeConfig(existing, p))
          /\ SetInv(i, Return([Begin(i, "save", p) EXCEPT !.wrote = TRUE], Text("Saved")))
    /\ UNCHANGED <<env, override>>

\* StepSave writing the resolved credential (environment first) as api_key
StepSaveResolvedKey(i, p) ==
    /\ Free(i)
    /\ ~Truthy(p.api_key) /\ p.step = "save"
    /\ LET existing == LoadConfig(file)
           st == Begin(i, "save", p)
           config == [MergeConfig(existing.rec, p) EXCEPT
                         !.api_key = ConfigGetApiKey(env, file)]
       IN IF ~existing.some
          THEN /\ SetInv(i, Return(st, Text("NotConfigured")))
               /\ UNCHANGED file
          ELSE /\ file' = SaveConfig(config)
               /\ SetInv(i, Return([st EXCEPT !.wrote = TRUE, !.config = config],
                                   Text("Saved")))
    /\ UNCHANGED <<env, override>>


\* StepSave merging into the record the server read when it started (K1's
\* first full setup) in place of the one on disk now
StepSaveOntoStartup(i, p) ==
    /\ Free(i)
    /\ ~Truthy(p.api_key) /\ p.step = "save"
    /\ LET existing == LoadConfig(file)
           atStart == BuildConfig([NoParams EXCEPT !.api_key = "K1"],
                                  UserOf("K1"), TeamsOf("K1")[1])
           st == Begin(i, "save", p)
       IN IF ~existing.some
          THEN /\ SetInv(i, Return(st, Text("NotConfigured")))
               /\ UNCHANGED file
          ELSE LET config == MergeConfig(atStart, p)
               IN /\ file' = SaveConfig(config)
                  /\ SetInv(i, Return([st EXCEPT !.wrote = TRUE, !.config = config],
                                      Text("Saved")))
    /\ UNCHANGED <<env, override>>

\* stepSave: it has no await, so it runs in one piece
StepSave(i, p) ==
    /\ Free(i)
    /\ ~Truthy(p.api_key) /\ p.step = "save"
    /\ LET existing == LoadConfig(file)
           st == Begin(i, "save", p)
       IN IF ~existing.some
          THEN /\ SetInv(i, Return(st, Text("NotConfigured")))
               /\ UNCHANGED file
          ELSE \E w \in WriteOutcomes :
                LET config == MergeConfig(existing.rec, p)
                IN IF w = "written"
                   THEN /\ file' = SaveConfig(config)
                        /\ SetInv(i, Return([st EXCEPT !.wrote = TRUE, !.config = config],
                                            Text("Saved")))
                   ELSE /\ file' = IF w = "failed_partial" THEN FileCorrupt ELSE file
                        /\ SetInv(i, Return([st EXCEPT !.wrote = (w = "failed_partial"),
                                                       !.config = config],
                                     ErrorResult([kind |-> "SaveFailed", msg |-> "<errno>"])))
    /\ UNCHANGED <<env, override>>

\* the result of stepReconfigure
Reconfigure(st) ==
    IF LoadConfig(file).some THEN Return(st, Text("ConfigShown"))
    ELSE Return(st, Text("NotConfigured"))

\* step = "reconfigure"
StepReconfigure(i, p) ==
    /\ Free(i)
    /\ ~Truthy(p.api_key) /\ p.step = "reconfigure"
    /\ SetInv(i, Reconfigure(Begin(i, "reconfigure", p)))
    /\ UNCHANGED <<file, env, override>>

\* OnboardingDefault deciding by the record, not by the resolvable credential
OnboardingDefaultByRecord(i, p) ==
    /\ Free(i)
    /\ ~Truthy(p.api_key) /\ p.step = Undef
    /\ IF LoadConfig(file).some
       THEN SetInv(i, Reconfigure(Begin(i, "default", p)))
       ELSE SetInv(i, Return(Begin(i, "default", p), Text("SetupInstructions")))
    /\ UNCHANGED <<file, env, override>>

\* OnboardingDefault writing DEFAULT_CONFIG when there is no record to show
OnboardingDefaultInitialises(i, p) ==
    /\ Free(i)
    /\ ~Truthy(p.api_key) /\ p.step = Undef
    /\ IF LoadConfig(file).some
       THEN /\ SetInv(i, Reconfigure(Begin(i, "default", p)))
            /\ UNCHANGED file
       ELSE /\ file' = SaveConfig(DEFAULT_CONFIG)
            /\ SetInv(i, Return([Begin(i, "default", p) EXCEPT !.wrote = TRUE],
                                Text("SetupInstructions")))
    /\ UNCHANGED <<env, override>>

\* neither api_key nor step
OnboardingDefault(i, p) ==
    /\ Free(i)
    /\ ~Truthy(p.api_key) /\ p.step = Undef
    /\ IF Truthy(ConfigGetApiKey(env, file))
       THEN SetInv(i, Reconfigure(Begin(i, "default", p)))
       ELSE SetInv(i, Return(Begin(i, "default", p), Text("SetupInstructions")))
    /\ UNCHANGED <<file, env, override>>

----------------------------------------------------------------------------
(* Task tools *)

NoTaskParams == [list_id |-> Undef, priority |-> None, assignees |-> None,
                 tags |-> None, due_date |-> Undef, now |-> Ts(20000, 0)]

\* a > b on timestamps
TsGreater(a, b) == a.d > b.d \/ (a.d = b.d /\ a.ms > b.ms)

\* 1e12 milliseconds
MsThreshold == Ts(11574, 6400000)

\* Number(value) of a date parameter: None is NaN
NumberOfDate(s) ==
    CASE s = "1700000000000" -> Some(Ts(19675, 80000000))
      [] s = "946684800000" -> Some(Ts(10957, 0))
      [] OTHER -> None

\* new Date(value).getTime(): None is an invalid date
DateParse(s) ==
    CASE s = "1700000000000" -> None
      [] s = "946684800000" -> None
      [] s = "2024-03-01" -> Some(Ts(19783, 0))
      [] s = "1970-01-01" -> Some(Ts(0, 0))
      [] OTHER -> None

\* toTimestamp(value): None is undefined
toTimestamp(value) ==
    IF ~Truthy(value) THEN None
    ELSE IF IsSome(NumberOfDate(value)) /\ TsGreater(Val(NumberOfDate(value)), MsThreshold)
         THEN NumberOfDate(value)
         ELSE DateParse(value)

\* truthiness of an optional number, and of an optional timestamp
NumTruthy(o) == IsSome(o) /\ Val(o) # 0
TsTruthy(o) == IsSome(o) /\ Val(o) # Ts(0, 0)

\* d.setDate(d.getDate() + offset); d.setHours(23, 59, 59, 0), the local zone
\* taken to be UTC
EndOfDayAfter(now, offset) == Ts(now.d + offset, 86399000)

\* let assignees: the explicit ids, else the configured user
ResolveAssigneesIgnoringFlag(p, cfg) ==
    IF IsSome(p.assignees) /\ StrTruthy(Val(p.assignees))
    THEN [k \in 1 .. Len(Val(p.assignees)) |-> Number(Trim(Val(p.assignees)[k]))]
    ELSE IF Truthy(OptField(cfg, "user_id"))
         THEN <<Number(OptField(cfg, "user_id"))>>
         ELSE <<>>

\* let assignees
ResolveAssignees(p, cfg) ==
    LET defaults == IF cfg.some THEN cfg.rec.defaults ELSE NoDefaults
    IN IF IsSome(p.assignees) /\ StrTruthy(Val(p.assignees))
       THEN [k \in 1 .. Len(Val(p.assignees)) |-> Number(Trim(Val(p.assignees)[k]))]
       ELSE IF IsSome(defaults.assignee_self) /\ Val(defaults.assignee_self)
               /\ Truthy(OptField(cfg, "user_id"))
            THEN <<Number(OptField(cfg, "user_id"))>>
            ELSE <<>>

\* let tags
ResolveTags(p, cfg) ==
    LET defaults == IF cfg.some THEN cfg.rec.defaults ELSE NoDefaults
    IN IF IsSome(p.tags) /\ StrTruthy(Val(p.tags))
       THEN SplitTrim(Val(p.tags))
       ELSE IF IsSome(defaults.tags) /\ Len(Val(defaults.tags)) > 0
            THEN Val(defaults.tags)
            ELSE <<>>

\* let due_date
ResolveDueDate(p, cfg) ==
    LET defaults == IF cfg.some THEN cfg.rec.defaults ELSE NoDefaults
    IN IF Truthy(p.due_date) THEN toTimestamp(p.due_date)
       ELSE IF NumTruthy(defaults.due_date_offset_days)
            THEN Some(EndOfDayAfter(p.now, Val(defaults.due_date_offset_days)))
            ELSE None

\* priority: params.priority || defaults.priority || null  (None is null)
ResolvePriority(p, cfg) ==
    LET defaults == IF cfg.some THEN cfg.rec.defaults ELSE NoDefaults
    IN IF NumTruthy(p.priority) THEN p.priority
       ELSE IF NumTruthy(defaults.priority) THEN defaults.priority
       ELSE None

\* the request body clickup_create_task builds (the fields it resolves against
\* the persisted defaults; the others are copied from the parameters)
ResolveBody(p, cfg) ==
    [list |-> Or(p.list_id, OptField(cfg, "default_list_id")),
     assignees |-> IF Len(ResolveAssignees(p, cfg)) > 0
                   THEN Some(ResolveAssignees(p, cfg)) ELSE None,
     tags |-> IF Len(ResolveTags(p, cfg)) > 0 THEN Some(ResolveTags(p, cfg)) ELSE None,
     priority |-> ResolvePriority(p, cfg),
     due_date |-> IF TsTruthy(ResolveDueDate(p, cfg)) THEN ResolveDueDate(p, cfg)
                  ELSE None]

\* CreateTaskStart without the check of listId
CreateTaskStartUnchecked(i, p) ==
    /\ Free(i)
    /\ SetInv(i, Await([Begin(i, "create_task", p) EXCEPT
                            !.body = ResolveBody(p, LoadConfig(file))],
                       "call",
                       IssueApi("createTask", ResolveBody(p, LoadConfig(file)).list,
                                override, file)))
    /\ UNCHANGED <<file, env, override>>

\* clickup_create_task up to its await
CreateTaskStart(i, p) ==
    /\ Free(i)
    /\ LET cfg == LoadConfig(file)
           st == Begin(i, "create_task", p)
           body == ResolveBody(p, cfg)
       IN IF ~Truthy(body.list)
          THEN SetInv(i, Return(st, [kind |-> "NoListConfigured", isError |-> TRUE,
                                     msg |-> "Run clickup_onboarding first."]))
          ELSE SetInv(i, Await([st EXCEPT !.body = body], "call",
                               IssueApi("createTask", body.list, override, file)))
    /\ UNCHANGED <<file, env, override>>

\* a tool of one remote call through api.js and no parameter resolution
\* (clickup_get_task): up to its await
GetTaskStart(i) ==
    /\ Free(i)
    /\ SetInv(i, Await(Begin(i, "get_task", NoTaskParams), "call",
                       IssueApi("getTask", "T1", override, file)))
    /\ UNCHANGED <<file, env, override>>

\* the answer to a tool's one call; a rejection leaves the handler, and the
\* host reports it as an error result
ToolResponse(i) ==
    /\ inv[i].op \in {"create_task", "get_task"} /\ inv[i].pc = "call"
    /\ \E o \in Outcomes(inv[i].pend) :
        SetInv(i, Return(inv[i], IF o = "ok" THEN Text("Ok")
                                 ELSE ErrorResult(ErrorOf(inv[i].pend, o))))
    /\ UNCHANGED <<file, env, override, started>>

----------------------------------------------------------------------------
(* Chat tools *)

\* clickup_get_chat_channels and clickup_send_chat_message up to the await
ChatStart(i, tool, p) ==
    /\ Free(i)
    /\ LET workspaceId == Or(p.workspace_id, OptField(LoadConfig(file), "workspace_id"))
           st == Begin(i, tool, p)
       IN IF ~Truthy(workspaceId)
          THEN SetInv(i, Return(st, [kind |-> "NoWorkspaceConfigured", isError |-> TRUE,
                                     msg |-> "Run clickup_onboarding."]))
          ELSE SetInv(i, Await(st, "call",
                               IssueChat(tool, workspaceId, override, file)))
    /\ UNCHANGED <<file, env, override>>

\* the answer to clickup_get_chat_channels: a failure is reported with okText
ChatChannelsResponse(i) ==
    /\ inv[i].op = "chat_channels" /\ inv[i].pc = "call"
    /\ \E o \in Outcomes(inv[i].pend) :
        SetInv(i, Return(inv[i],
                         IF o = "ok" THEN Text("Ok")
                         ELSE [kind |-> ErrorOf(inv[i].pend, o).kind, isError |-> FALSE,
                               msg |-> ErrorOf(inv[i].pend, o).msg]))
    /\ UNCHANGED <<file, env, override, started>>

\* the answer to clickup_send_chat_message: a failure is reported with errorText
ChatSendResponse(i) ==
    /\ inv[i].op = "chat_send" /\ inv[i].pc = "call"
    /\ \E o \in Outcomes(inv[i].pend) :
        SetInv(i, Return(inv[i], IF o = "ok" THEN Text("Ok")
                                 ELSE ErrorResult(ErrorOf(inv[i].pend, o))))
    /\ UNCHANGED <<file, env, override, started>>

----------------------------------------------------------------------------
(* The server process *)

\* the host takes the result; the slot is free again
Respond(i) ==
    /\ inv[i].pc = "done"
    /\ SetInv(i, Idle)
    /\ UNCHANGED <<file, env, override, started>>

\* the parameters the host sends to clickup_onboarding
SetupParams ==
    {[NoParams EXCEPT !.api_key = k] : k \in Keys}

SaveParams ==
    {[NoParams EXCEPT !.step = "save", !.list_id = l] : l \in {Undef, "L0"}}

ReconfigureParams == {[NoParams EXCEPT !.step = "reconfigure"]}

TaskParams == {[NoTaskParams EXCEPT !.list_id = l] : l \in {Undef, "L1"}}

ChatParams == {[NoParams EXCEPT !.workspace_id = w] : w \in {Undef, "W1"}}

\* the records an earlier run of the server may have left on disk
EarlierRecords == {BuildConfig(p, UserOf(p.api_key), TeamsOf(p.api_key)[1]) :
                      p \in {q \in SetupParams : q.api_key = "K1"}}

\* the server starts: the file is as an earlier run left it, the override is unset
InitProcess ==
    /\ file \in {FileMissing} \cup {SaveConfig(r) : r \in EarlierRecords}
    /\ env \in {Null, "KE"}
    /\ override = Null
    /\ started = 0

\* a host that overlaps two invocations
Init == InitProcess /\ inv = [i \in {1, 2} |-> Idle]

Next ==
    \/ \E i \in Inv, p \in SetupParams : FullSetupStart(i, p)
    \/ \E i \in Inv : FullSetupUser(i)
    \/ \E i \in Inv : FullSetupTeams(i)
    \/ \E i \in Inv : FullSetupSpaces(i)
    \/ \E i \in Inv : FullSetupFolderless(i)
    \/ \E i \in Inv : FullSetupFolders(i)
    \/ \E i \in Inv : FullSetupLists(i)
    \/ \E i \in Inv, p \in SaveParams : StepSave(i, p)
    \/ \E i \in Inv, p \in ReconfigureParams : StepReconfigure(i, p)
    \/ \E i \in Inv : OnboardingDefault(i, NoParams)
    \/ \E i \in Inv, p \in TaskParams : CreateTaskStart(i, p)
    \/ \E i \in Inv : GetTaskStart(i)
    \/ \E i \in Inv : ToolResponse(i)
    \/ \E i \in Inv, p \in ChatParams : ChatStart(i, "chat_channels", p)
    \/ \E i \in Inv : ChatChannelsResponse(i)
    \/ \E i \in Inv : Respond(i)

\* concurrent invocations of one server process
Spec == Init /\ [][Next]_vars

----------------------------------------------------------------------------
(* Hierarchy discovery, one invocation at a time, over every workspace *)

DiscSetupParams ==
    {[NoParams EXCEPT !.api_key = "K1", !.workspace_id = w] : w \in {Undef, "W2", "W9"}}

ChooseListParams ==
    {[NoParams EXCEPT !.step = "choose_list", !.workspace_id = w] :
        w \in {Undef, "W1", "W2"}}

\* a host that sends one invocation at a time
InitSeq == InitProcess /\ inv = [i \in {1} |-> Idle]

NextDisc ==
    \/ \E i \in Inv, p \in DiscSetupParams : FullSetupStart(i, p)
    \/ \E i \in Inv : FullSetupUser(i)
    \/ \E i \in Inv : FullSetupTeams(i)
    \/ \E i \in Inv : FullSetupSpaces(i)
    \/ \E i \in Inv : FullSetupFolderless(i)
    \/ \E i \in Inv : FullSetupFolders(i)
    \/ \E i \in Inv : FullSetupLists(i)
    \/ \E i \in Inv, p \in ChooseListParams : ChooseListStart(i, p)
    \/ \E i \in Inv : ChooseListSpaces(i)
    \/ \E i \in Inv : ChooseListFolderless(i)
    \/ \E i \in Inv : ChooseListFolders(i)
    \/ \E i \in Inv : ChooseListLists(i)
    \/ \E i \in Inv : Respond(i)

SpecDisc == InitSeq /\ [][NextDisc]_vars

----------------------------------------------------------------------------
(* Onboarding, one invocation at a time, over the parameters of the tool *)

OnbOptions ==
    [assignee_self : {None, Some(FALSE)},
     priority : {None, Some(1)},
     tags : {None, Some(<<"">>), Some(<<"urgent", " ops">>)},
     due_date_offset_days : {None, Some(0)},
     list : {[id |-> Undef, name |-> Undef], [id |-> "L9", name |-> "Nine"]}]

WithOptions(p, o) ==
    [p EXCEPT !.assignee_self = o.assignee_self, !.priority = o.priority,
              !.tags = o.tags, !.due_date_offset_days = o.due_date_offset_days,
              !.list_id = o.list.id, !.list_name = o.list.name]

OnbSetupParams == {WithOptions([NoParams EXCEPT !.api_key = "K1"], o) : o \in OnbOptions}

OnbSaveParams ==
    {WithOptions([NoParams EXCEPT !.step = "save", !.workspace_id = w], o) :
        o \in OnbOptions, w \in {Undef, "W2"}}

NextOnb ==
    \/ \E i \in Inv, p \in OnbSetupParams : FullSetupStart(i, p)
    \/ \E i \in Inv : FullSetupUser(i)
    \/ \E i \in Inv : FullSetupTeams(i)
    \/ \E i \in Inv : FullSetupSpaces(i)
    \/ \E i \in Inv : FullSetupFolderless(i)
    \/ \E i \in Inv : FullSetupFolders(i)
    \/ \E i \in Inv : FullSetupLists(i)
    \/ \E i \in Inv, p \in OnbSaveParams : StepSave(i, p)
    \/ \E i \in Inv, p \in ReconfigureParams : StepReconfigure(i, p)
    \/ \E i \in Inv : OnboardingDefault(i, NoParams)
    \/ \E i \in Inv : Respond(i)

SpecOnb == InitSeq /\ [][NextOnb]_vars

----------------------------------------------------------------------------
(* Credential resolution *)

\* the credential the precedence override > environment > persisted selects
\* among the three sources as they were when call c was issued
Preferred(c) ==
    IF Truthy(c.ov) THEN c.ov
    ELSE IF Truthy(c.env) THEN c.env
    ELSE IF Truthy(c.pk) THEN c.pk
    ELSE Null

Issued(st) == st.op # "idle" /\ st.pend.ep # "none"

\* C1: every remote call any tool issues, the chat tools included, carries the
\* override if one is set, else the environment credential if one is set, else
\* the persisted api_key.
C1_CredentialPrecedence ==
    \A i \in Inv : Issued(inv[i]) => inv[i].pend.cred = Preferred(inv[i].pend)

\* C2: in every state where no full setup is in progress the override is unset:
\* a full setup that has returned, by whatever path, has cleared it.
C2_OverrideClearedOnExit ==
    (\A i \in Inv : ~(inv[i].op = "full_setup" /\ inv[i].pc # "done"))
        => override = Null

\* C3: the step in which a full setup learns that its validation call (fetch
\* of the authenticated identity) failed leaves the configuration file as it
\* was, absent or present, and the invocation returns an error without having
\* called save.
C3_FailedValidationWritesNothing ==
    [][\A i \in Inv :
        (inv[i].op = "full_setup" /\ inv[i].pc = "user" /\ inv'[i].pc = "done")
            => (file' = file /\ ~inv'[i].wrote /\ inv'[i].result.isError)]_vars

C3_Witness ==
    \E i \in Inv :
        /\ inv[i].op = "full_setup" /\ inv[i].pc = "done"
        /\ inv[i].pend.ep = "getAuthorizedUser"
        /\ inv[i].result.isError
        /\ file.st = "ok"

NamesOnboarding(msg) ==
    msg \in {"No API key configured. Run clickup_onboarding first.",
             "No API key configured. Run clickup_onboarding with your API key first."}

\* C10: a remote call issued while no override is set, no environment
\* credential is present and no api_key is persisted ends before any HTTP
\* request is sent, with a NotConfigured error naming the onboarding tool.
C10_NotConfiguredBeforeRequest ==
    \A i \in Inv :
        (Issued(inv[i]) /\ Preferred(inv[i].pend) = Null)
            => /\ ~inv[i].pend.sent
               /\ \A o \in Outcomes(inv[i].pend) :
                    /\ ErrorOf(inv[i].pend, o).kind = "NotConfigured"
                    /\ NamesOnboarding(ErrorOf(inv[i].pend, o).msg)
               /\ (inv[i].pc = "done"
                   /\ inv[i].op \in {"get_task", "create_task", "chat_channels"})
                      => /\ inv[i].result.kind = "NotConfigured"
                         /\ NamesOnboarding(inv[i].result.msg)

C10_Witness ==
    \E i, j \in Inv :
        /\ inv[i].op = "chat_channels" /\ inv[i].pc = "done"
        /\ inv[i].pend.ep # "none" /\ Preferred(inv[i].pend) = Null
        /\ inv[j].op = "get_task" /\ inv[j].pc = "done"
        /\ Preferred(inv[j].pend) = Null

----------------------------------------------------------------------------
(* Hierarchy discovery *)

\* the invocation has left the discovery loop
DiscoveryDone(st) ==
    /\ st.op \in {"full_setup", "choose_list"} /\ st.pc = "done"
    /\ st.result.kind \in {"Configured", "SaveFailed", "ListsShown"}

Attempted(st, ep, arg) ==
    \E k \in DOMAIN st.fetched : st.fetched[k].ep = ep /\ st.fetched[k].arg = arg

Succeeded(st, ep, arg) ==
    \E k \in DOMAIN st.fetched :
        st.fetched[k].ep = ep /\ st.fetched[k].arg = arg /\ st.fetched[k].ok

\* what the remote API answered to a fetch of the loop
Answer(ep, arg) ==
    IF ep = "getFolderlessLists" THEN FolderlessOf(arg) ELSE ListsOf(arg)

ListIds(st) == {st.allLists[k].id : k \in DOMAIN st.allLists}

\* C5: a failure of any one of the three per-branch fetches empties that branch
\* only. When discovery is over, both fetches of every space were made, the
\* lists of every folder of every answered folder listing were fetched, and
\* the lists of every fetch that succeeded are in the result.
C5_BranchFailureIsolated ==
    \A i \in Inv : DiscoveryDone(inv[i]) =>
        LET st == inv[i]
        IN /\ \A k \in DOMAIN st.spaces :
                /\ Attempted(st, "getFolderlessLists", st.spaces[k].id)
                /\ Attempted(st, "getFolders", st.spaces[k].id)
                /\ Succeeded(st, "getFolders", st.spaces[k].id) =>
                      \A m \in DOMAIN FoldersOf(st.spaces[k].id) :
                          Attempted(st, "getListsInFolder",
                                    FoldersOf(st.spaces[k].id)[m].id)
           /\ \A k \in DOMAIN st.fetched :
                (st.fetched[k].ok /\ st.fetched[k].ep # "getFolders") =>
                    \A m \in DOMAIN Answer(st.fetched[k].ep, st.fetched[k].arg) :
                        Answer(st.fetched[k].ep, st.fetched[k].arg)[m].id \in ListIds(st)

\* the folder listing of the first space failed; its folderless list and the
\* lists of the second space are in the result
C5_Witness ==
    \E i \in Inv :
        /\ DiscoveryDone(inv[i]) /\ inv[i].op = "full_setup"
        /\ Len(inv[i].spaces) = 2
        /\ Attempted(inv[i], "getFolders", "S1") /\ ~Succeeded(inv[i], "getFolders", "S1")
        /\ Succeeded(inv[i], "getFolderlessLists", "S2")
        /\ {"L1", "L4"} \subseteq ListIds(inv[i])

Entries(lists, spaceName, folderName) ==
    [k \in 1 .. Len(lists) |->
        [id |-> lists[k].id, name |-> lists[k].name,
         space |-> spaceName, folder |-> folderName]]

RECURSIVE FolderEntries(_, _, _, _)
\* the entries of folders m.. of space sp, in folder order
FolderEntries(st, sp, folders, m) ==
    IF m > Len(folders) THEN <<>>
    ELSE (IF Succeeded(st, "getListsInFolder", folders[m].id)
          THEN Entries(ListsOf(folders[m].id), sp.name, folders[m].name)
          ELSE <<>>)
         \o FolderEntries(st, sp, folders, m + 1)

RECURSIVE SpaceEntries(_, _)
\* the entries of spaces k.., in the order the API returned the spaces
SpaceEntries(st, k) ==
    IF k > Len(st.spaces) THEN <<>>
    ELSE (IF Succeeded(st, "getFolderlessLists", st.spaces[k].id)
          THEN Entries(FolderlessOf(st.spaces[k].id), st.spaces[k].name, Null)
          ELSE <<>>)
         \o (IF Succeeded(st, "getFolders", st.spaces[k].id)
             THEN FolderEntries(st, st.spaces[k], FoldersOf(st.spaces[k].id), 1)
             ELSE <<>>)
         \o SpaceEntries(st, k + 1)

\* C6: the flat list of a finished discovery holds exactly the lists the
\* successful fetches returned, in traversal order (spaces in the returned
\* order; in a space the folderless lists, then the lists of each folder in
\* folder order), each with its id, name, space name and folder name, the
\* folder name being null exactly for the folderless lists.
C6_FlatListInTraversalOrder ==
    \A i \in Inv : DiscoveryDone(inv[i]) =>
        /\ inv[i].allLists = SpaceEntries(inv[i], 1)
        /\ \A k \in DOMAIN inv[i].allLists :
            (inv[i].allLists[k].folder = Null) <=>
                \E m \in DOMAIN inv[i].spaces :
                    \E n \in DOMAIN FolderlessOf(inv[i].spaces[m].id) :
                        FolderlessOf(inv[i].spaces[m].id)[n].id = inv[i].allLists[k].id

\* every fetch over the two spaces succeeded
C6_Witness ==
    \E i \in Inv :
        /\ DiscoveryDone(inv[i])
        /\ [k \in DOMAIN inv[i].allLists |-> inv[i].allLists[k].id]
              = <<"L1", "L2", "L3", "L4">>
        /\ inv[i].allLists[2].folder = "Sprints" /\ inv[i].allLists[4].space = "Ops"

----------------------------------------------------------------------------
(* The task default resolver, over the records onboarding writes *)

RichTaskParams ==
    {[NoTaskParams EXCEPT !.list_id = l, !.priority = pr, !.assignees = a,
                          !.tags = t, !.due_date = d] :
        l \in {Undef, "", "L1"},
        pr \in {None, Some(2)},
        a \in {None, Some(<<"">>), Some(<<"7", " 9">>)},
        t \in {None, Some(<<"">>), Some(<<"urgent", " ops">>)},
        d \in {Undef, "", "1700000000000", "946684800000", "2024-03-01", "soon",
               "1970-01-01"}}

\* the file is missing, broken, or as a full setup left it
InitTask ==
    /\ file \in {FileMissing, FileCorrupt}
            \cup {SaveConfig(BuildConfig(p, UserOf(p.api_key), TeamsOf(p.api_key)[1])) :
                    p \in OnbSetupParams}
    /\ env \in {Null, "KE"}
    /\ override = Null
    /\ started = 0
    /\ inv = [i \in {1} |-> Idle]

NextTask ==
    \/ \E i \in Inv, p \in RichTaskParams : CreateTaskStart(i, p)
    \/ \E i \in Inv : ToolResponse(i)
    \/ \E i \in Inv : Respond(i)

SpecTask == InitTask /\ [][NextTask]_vars

\* the invocation has built its request body and issued the call
Resolved(st) == st.op = "create_task" /\ st.pend.ep = "createTask"

\* what the text of a parameter says: the ids, the tags, the instant (a
\* timestamp in milliseconds or an ISO date; None when it is neither)
DenotedIds(a) == CASE a = <<"7", " 9">> -> <<7, 9>> [] OTHER -> <<>>

DenotedTags(t) == CASE t = <<"urgent", " ops">> -> <<"urgent", "ops">> [] OTHER -> <<>>

DenotedTs(d) ==
    CASE d = "1700000000000" -> Some(Ts(19675, 80000000))
      [] d = "946684800000" -> Some(Ts(10957, 0))
      [] d = "2024-03-01" -> Some(Ts(19783, 0))
      [] d = "1970-01-01" -> Some(Ts(0, 0))
      [] OTHER -> None

Listed(seq) == IF seq = <<>> THEN None ELSE Some(seq)

\* C7: for list, assignees, tags, priority and due date, whenever the caller
\* supplies an explicit (non-empty) value the request uses exactly that value
\* and never the persisted default, for every persisted configuration.
C7_ExplicitAlwaysWins ==
    \A i \in Inv : Resolved(inv[i]) =>
        LET p == inv[i].p
            b == inv[i].body
        IN /\ Truthy(p.list_id) => b.list = p.list_id
           /\ (IsSome(p.assignees) /\ Val(p.assignees) # <<"">>)
                 => b.assignees = Listed(DenotedIds(Val(p.assignees)))
           /\ (IsSome(p.tags) /\ Val(p.tags) # <<"">>)
                 => b.tags = Listed(DenotedTags(Val(p.tags)))
           /\ IsSome(p.priority) => b.priority = p.priority
           /\ Truthy(p.due_date) => b.due_date = DenotedTs(p.due_date)

\* C8: without an explicit value, assignees is the configured user alone iff
\* defaults.assignee_self is true and a user_id is known, and is left out
\* otherwise; tags is defaults.tags iff that list is non-empty; priority is
\* defaults.priority when one is configured and is null when none is.
C8_DefaultsApplied ==
    \A i \in Inv : Resolved(inv[i]) =>
        LET p == inv[i].p
            b == inv[i].body
            cfg == LoadConfig(file)
            d == IF cfg.some THEN cfg.rec.defaults ELSE NoDefaults
        IN /\ p.assignees = None =>
                b.assignees = IF d.assignee_self = Some(TRUE) /\ cfg.some
                                 /\ Truthy(cfg.rec.user_id)
                              THEN Some(<<UserOf(cfg.rec.api_key).id>>)
                              ELSE None
           /\ p.tags = None =>
                b.tags = IF IsSome(d.tags) /\ Val(d.tags) # <<>> THEN d.tags ELSE None
           /\ p.priority = None =>
                b.priority = IF IsSome(d.priority) THEN d.priority ELSE None

\* no explicit value, the defaults of a first full setup
C8_Witness ==
    \E i \in Inv :
        /\ Resolved(inv[i])
        /\ inv[i].p.assignees = None /\ inv[i].p.tags = None /\ inv[i].p.priority = None
        /\ inv[i].body.assignees = Some(<<42>>)
        /\ inv[i].body.tags = Some(<<"via-claude">>)
        /\ inv[i].body.priority = Some(3)

\* C9: task creation with neither an explicit list_id nor a persisted
\* default_list_id, also when no configuration exists, returns the
\* NoListConfigured error result and issues no remote call.
C9_NoListConfigured ==
    \A i \in Inv :
        (/\ inv[i].op = "create_task"
         /\ ~Truthy(inv[i].p.list_id)
         /\ ~Truthy(OptField(LoadConfig(file), "default_list_id")))
            => /\ inv[i].pc = "done"
               /\ inv[i].result.kind = "NoListConfigured"
               /\ inv[i].result.isError
               /\ inv[i].pend.ep = "none"

C9_Witness ==
    \E i \in Inv :
        /\ inv[i].op = "create_task" /\ inv[i].result.kind = "NoListConfigured"
        /\ file.st = "missing"
        /\ IsSome(inv[i].p.priority)

----------------------------------------------------------------------------
(* The configuration store *)

\* the invocation's saveConfig(config) has returned in this step
SaveReturned(i) ==
    /\ inv'[i].wrote /\ ~inv[i].wrote
    /\ ~inv'[i].result.isError

\* C11: for every configuration record saved, load() performed immediately
\* after save(record) returns a record deep-equal to record.
C11_SaveLoadRoundTrip ==
    [][\A i \in Inv : SaveReturned(i) =>
            LoadConfig(file') = [some |-> TRUE, rec |-> inv'[i].config]]_vars

\* a record with a null property has been saved and loads as it was
C11_Witness ==
    \E i \in Inv :
        /\ inv[i].wrote /\ inv[i].result.kind = "Saved"
        /\ inv[i].config.default_list_id = Null
        /\ inv[i].config.defaults.due_date_offset_days = Some(0)
        /\ LoadConfig(file).rec = inv[i].config

----------------------------------------------------------------------------
(* Every tool, one invocation at a time *)

ToolsChooseListParams ==
    {[NoParams EXCEPT !.step = "choose_list", !.workspace_id = w] : w \in {Undef, "W1"}}

NextTools ==
    \/ \E i \in Inv, p \in SetupParams : FullSetupStart(i, p)
    \/ \E i \in Inv : FullSetupUser(i)
    \/ \E i \in Inv : FullSetupTeams(i)
    \/ \E i \in Inv : FullSetupSpaces(i)
    \/ \E i \in Inv : FullSetupFolderless(i)
    \/ \E i \in Inv : FullSetupFolders(i)
    \/ \E i \in Inv : FullSetupLists(i)
    \/ \E i \in Inv, p \in ToolsChooseListParams : ChooseListStart(i, p)
    \/ \E i \in Inv : ChooseListSpaces(i)
    \/ \E i \in Inv : ChooseListFolderless(i)
    \/ \E i \in Inv : ChooseListFolders(i)
    \/ \E i \in Inv : ChooseListLists(i)
    \/ \E i \in Inv, p \in SaveParams : StepSave(i, p)
    \/ \E i \in Inv, p \in ReconfigureParams : StepReconfigure(i, p)
    \/ \E i \in Inv : OnboardingDefault(i, NoParams)
    \/ \E i \in Inv, p \in TaskParams : CreateTaskStart(i, p)
    \/ \E i \in Inv : GetTaskStart(i)
    \/ \E i \in Inv : ToolResponse(i)
    \/ \E i \in Inv, p \in ChatParams : ChatStart(i, "chat_channels", p)
    \/ \E i \in Inv : ChatChannelsResponse(i)
    \/ \E i \in Inv, p \in ChatParams : ChatStart(i, "chat_send", p)
    \/ \E i \in Inv : ChatSendResponse(i)
    \/ \E i \in Inv : Respond(i)

SpecTools == InitSeq /\ [][NextTools]_vars

\* the api_key a load of the file gives
PersistedKey(f) == OptField(LoadConfig(f), "api_key")

\* the invocation calls saveConfig(config) in this step
CallsSave(i) ==
    /\ inv[i].pc # "done" /\ inv'[i].pc = "done"
    /\ inv'[i].config # NoRecord

\* C12: the persisted api_key changes only through a successful full setup
\* that supplies the new credential; the save step writes the api_key it
\* loaded; choose_list, reconfigure, the call without arguments and the other
\* tools write nothing; the environment credential is never written.
C12_ApiKeyFrame ==
    [][/\ file' # file => \E i \in Inv : CallsSave(i)
       /\ \A i \in Inv : CallsSave(i) =>
            /\ inv'[i].op \in {"full_setup", "save"}
            /\ inv'[i].op = "save" => inv'[i].config.api_key = PersistedKey(file)
            /\ inv'[i].op = "full_setup" => inv'[i].config.api_key = inv'[i].p.api_key
       /\ (LoadConfig(file').some /\ PersistedKey(file') # PersistedKey(file)) =>
            \E i \in Inv : /\ inv'[i].op = "full_setup"
                           /\ inv'[i].result.kind = "Configured"
                           /\ PersistedKey(file') = inv'[i].p.api_key]_vars

\* a save step has written with an environment credential present, and the
\* stored api_key is still the persisted one
C12_Witness ==
    \E i \in Inv :
        /\ inv[i].op = "save" /\ inv[i].wrote /\ inv[i].result.kind = "Saved"
        /\ env = "KE"
        /\ PersistedKey(file) = "K1"
        /\ inv[i].config.default_list_id = "L0"

----------------------------------------------------------------------------
(* The save step *)

\* a string parameter that is given (not left out, not empty)
Given(x) == x \notin {Undef, ""}

\* C13: the save step on an existing record changes only the fields the
\* caller supplies: workspace_id, default_list_id, default_list_name and each
\* field of defaults take the supplied value when given and keep the existing
\* value otherwise (an existing assignee_self = false and an existing
\* due_date_offset_days = 0 included); api_key and the user identity fields
\* are unchanged.
C13_SaveChangesOnlySupplied ==
    [][\A i \in Inv : (CallsSave(i) /\ inv'[i].op = "save") =>
        LET old == LoadConfig(file).rec
            new == inv'[i].config
            p == inv'[i].p
        IN /\ new.workspace_id = IF Given(p.workspace_id) THEN p.workspace_id
                                 ELSE old.workspace_id
           /\ new.default_list_id = IF Given(p.list_id) THEN p.list_id
                                    ELSE old.default_list_id
           /\ new.default_list_name = IF Given(p.list_name) THEN p.list_name
                                      ELSE old.default_list_name
           /\ new.defaults.assignee_self = IF IsSome(p.assignee_self) THEN p.assignee_self
                                           ELSE old.defaults.assignee_self
           /\ new.defaults.priority = IF IsSome(p.priority) THEN p.priority
                                      ELSE old.defaults.priority
           /\ new.defaults.tags = IF IsSome(p.tags) /\ Val(p.tags) # <<"">>
                                  THEN Some(DenotedTags(Val(p.tags)))
                                  ELSE old.defaults.tags
           /\ new.defaults.due_date_offset_days =
                 IF IsSome(p.due_date_offset_days) THEN p.due_date_offset_days
                 ELSE old.defaults.due_date_offset_days
           /\ new.api_key = old.api_key
           /\ new.user_id = old.user_id
           /\ new.user_name = old.user_name
           /\ new.user_email = old.user_email
           /\ inv'[i].wrote /\ ~inv'[i].result.isError
                 => LoadConfig(file') = [some |-> TRUE, rec |-> new]]_vars

\* a save that supplies a priority only, over assignee_self = false and
\* due_date_offset_days = 0, has kept both
C13_Witness ==
    \E i \in Inv :
        /\ inv[i].op = "save" /\ inv[i].wrote /\ inv[i].result.kind = "Saved"
        /\ inv[i].p.assignee_self = None /\ inv[i].p.due_date_offset_days = None
        /\ inv[i].p.priority = Some(1) /\ inv[i].p.workspace_id = "W2"
        /\ LoadConfig(file).rec.defaults.assignee_self = Some(FALSE)
        /\ LoadConfig(file).rec.defaults.due_date_offset_days = Some(0)
        /\ LoadConfig(file).rec.defaults.priority = Some(1)
        /\ LoadConfig(file).rec.workspace_id = "W2"

----------------------------------------------------------------------------
(* The defaults a full setup persists *)

\* the value of a defaults field: supplied, else persisted, else the fallback
MergedDefault(supplied, cfg, fld, fallback) ==
    IF IsSome(supplied) THEN supplied
    ELSE IF cfg.some /\ IsSome(cfg.rec.defaults[fld]) THEN cfg.rec.defaults[fld]
    ELSE Some(fallback)

\* C14: in a successful full setup each field of the persisted defaults is
\* the caller-supplied value when given, otherwise the value of the already
\* persisted defaults when a record exists, and the hardcoded fallback
\* (priority 3, tags ["via-claude"], due-date offset 1, assignee_self true)
\* only when no persisted value exists.
C14_SetupDefaultsMerged ==
    [][\A i \in Inv :
        (CallsSave(i) /\ inv'[i].op = "full_setup" /\ inv'[i].result.kind = "Configured") =>
            LET cfg == LoadConfig(file)
                d == inv'[i].config.defaults
                p == inv'[i].p
            IN /\ d.assignee_self = MergedDefault(p.assignee_self, cfg, "assignee_self", TRUE)
               /\ d.priority = MergedDefault(p.priority, cfg, "priority", 3)
               /\ d.tags = MergedDefault(IF IsSome(p.tags) /\ Val(p.tags) # <<"">>
                                         THEN Some(DenotedTags(Val(p.tags))) ELSE None,
                                         cfg, "tags", <<"via-claude">>)
               /\ d.due_date_offset_days =
                     MergedDefault(p.due_date_offset_days, cfg, "due_date_offset_days", 1)]_vars

----------------------------------------------------------------------------
(* Onboarding from no configuration file, over the declared priorities *)

\* z.number().min(1).max(4).optional()
PriorityParams == {None} \cup {Some(k) : k \in 1 .. 4}

PrioSetupParams ==
    {[NoParams EXCEPT !.api_key = "K1", !.priority = pr] : pr \in PriorityParams}

PrioSaveParams ==
    {[NoParams EXCEPT !.step = "save", !.priority = pr] : pr \in PriorityParams}

InitNoFile ==
    /\ file = FileMissing
    /\ env \in {Null, "KE"}
    /\ override = Null
    /\ started = 0
    /\ inv = [i \in {1} |-> Idle]

NextPrio ==
    \/ \E i \in Inv, p \in PrioSetupParams : FullSetupStart(i, p)
    \/ \E i \in Inv : FullSetupUser(i)
    \/ \E i \in Inv : FullSetupTeams(i)
    \/ \E i \in Inv : FullSetupSpaces(i)
    \/ \E i \in Inv : FullSetupFolderless(i)
    \/ \E i \in Inv : FullSetupFolders(i)
    \/ \E i \in Inv : FullSetupLists(i)
    \/ \E i \in Inv, p \in PrioSaveParams : StepSave(i, p)
    \/ \E i \in Inv : Respond(i)

SpecPrio == InitNoFile /\ [][NextPrio]_vars

\* C15: after any sequence of full setups and saves with a priority
\* parameter in 1..4 or left out, starting from no configuration file, every
\* persisted record has defaults.priority in {1, 2, 3, 4}, and a priority
\* left out with no existing value results in 3.
C15_PriorityInRange ==
    /\ [](LoadConfig(file).some =>
            LoadConfig(file).rec.defaults.priority \in {Some(k) : k \in 1 .. 4})
    /\ [][\A i \in Inv :
            (/\ CallsSave(i) /\ inv'[i].wrote /\ ~inv'[i].result.isError
             /\ inv'[i].p.priority = None
             /\ ~(LoadConfig(file).some /\ IsSome(LoadConfig(file).rec.defaults.priority)))
                => LoadConfig(file').rec.defaults.priority = Some(3)]_vars

\* a first full setup without a priority has stored 3
C15_Witness ==
    \E i \in Inv :
        /\ inv[i].op = "full_setup" /\ inv[i].result.kind = "Configured"
        /\ inv[i].p.priority = None
        /\ started = 1
        /\ LoadConfig(file).rec.defaults.priority = Some(3)

----------------------------------------------------------------------------
(* The tags onboarding persists *)

\* C16: in every configuration record onboarding writes (full setup or save)
\* defaults.tags is a list and never null; when neither the caller nor an
\* existing record provides tags it is the single-element list ["via-claude"].
C16_TagsNeverNull ==
    /\ [](LoadConfig(file).some => IsSome(LoadConfig(file).rec.defaults.tags))
    /\ [][\A i \in Inv : CallsSave(i) =>
            /\ IsSome(inv'[i].config.defaults.tags)
            /\ (/\ ~(IsSome(inv'[i].p.tags) /\ Val(inv'[i].p.tags) # <<"">>)
                /\ ~(LoadConfig(file).some /\ IsSome(LoadConfig(file).rec.defaults.tags)))
                  => inv'[i].config.defaults.tags = Some(<<"via-claude">>)]_vars

\* a first full setup given an empty tags string has stored ["via-claude"]
C16_Witness ==
    \E i \in Inv :
        /\ inv[i].op = "full_setup" /\ inv[i].result.kind = "Configured"
        /\ inv[i].p.tags = Some(<<"">>)
        /\ LoadConfig(file).rec.defaults.tags = Some(<<"via-claude">>)

----------------------------------------------------------------------------
(* The workspace a full setup selects *)

\* the full setup ended at the workspace enumeration, which was answered
EndedAtEnumeration(st) ==
    /\ st.op = "full_setup" /\ st.pc = "done"
    /\ st.user # NoUser /\ st.pend.ep = "getTeams"
    /\ st.result.kind \notin {"RemoteCallFailed", "NotConfigured"}

\* the workspace with the given id, the first one when there is none
WorkspaceFor(teams, wid) ==
    IF \E k \in 1 .. Len(teams) : teams[k].id = wid
    THEN CHOOSE t \in {teams[k] : k \in 1 .. Len(teams)} : t.id = wid
    ELSE teams[1]

\* C17: in a full setup whose validation succeeded, an empty workspace
\* enumeration ends the invocation with the NoWorkspaces error result and no
\* configuration written; otherwise the workspace selected is the enumerated
\* one with the supplied workspace_id, the first one when no id is supplied
\* or none matches, and the persisted workspace_id and workspace_name are its.
C17_WorkspaceSelection ==
    \A i \in Inv :
        /\ EndedAtEnumeration(inv[i]) =>
              /\ inv[i].result.kind = "NoWorkspaces"
              /\ inv[i].result.isError
              /\ ~inv[i].wrote
        /\ (inv[i].op = "full_setup" /\ inv[i].ws # NoWorkspace) =>
              /\ inv[i].ws = WorkspaceFor(inv[i].teams, inv[i].p.workspace_id)
              /\ inv[i].result.kind = "Configured" =>
                    /\ inv[i].config.workspace_id = inv[i].ws.id
                    /\ inv[i].config.workspace_name = inv[i].ws.name

----------------------------------------------------------------------------
(* The life of the configuration file *)

\* the full setup reaches its save after validation, enumeration and discovery
SetupReachesSave(i) ==
    /\ CallsSave(i) /\ inv'[i].op = "full_setup"
    /\ inv[i].pc \in {"spaces", "folderless", "folders", "lists"}
    /\ inv'[i].user = UserOf(inv'[i].p.api_key)
    /\ \E k \in DOMAIN inv'[i].teams : inv'[i].teams[k] = inv'[i].ws
    /\ inv'[i].spaces = SpacesOf(inv'[i].ws.id)

\* C18: the file comes to exist only through a full setup that has completed
\* validation, workspace enumeration and discovery; once it exists no
\* operation deletes it; and its content is changed only by the save of such
\* a full setup or by a save step on an existing record: choose_list,
\* reconfigure, the onboarding call without arguments and the other tools
\* leave it unchanged.
C18_FileLifecycle ==
    [][/\ file # FileMissing => file' # FileMissing
       /\ (file = FileMissing /\ file' # FileMissing) =>
             \E i \in Inv : SetupReachesSave(i)
       /\ file' # file =>
             \E i \in Inv :
                \/ SetupReachesSave(i)
                \/ CallsSave(i) /\ inv'[i].op = "save" /\ LoadConfig(file).some
       /\ \A i \in Inv :
             (inv'[i] # inv[i] /\ inv'[i].op \notin {"full_setup", "save", "idle"})
                 => file' = file]_vars

\* after a first full setup created the file, a choose_list has run to its end
C18_Witness ==
    \E i \in Inv :
        /\ inv[i].op = "choose_list" /\ inv[i].result.kind = "ListsShown"
        /\ started = 2
        /\ LoadConfig(file).some

----------------------------------------------------------------------------
(* The onboarding call without arguments *)

\* what the reconfigure step answers for a file
ReconfigureAnswer(f) ==
    IF LoadConfig(f).some THEN [kind |-> "ConfigShown", isError |-> FALSE, msg |-> ""]
    ELSE [kind |-> "NotConfigured", isError |-> FALSE, msg |-> ""]

----------------------------------------------------------------------------
(* Failures on the critical path of a full setup *)

\* the messages the pending call can reject with
UpstreamMessages(c) ==
    IF c.sent THEN {"ClickUp API <status>"}
    ELSE {"No API key configured. Run clickup_onboarding with your API key first."}

\* C20: in a full setup a failure of the credential validation, of the
\* workspace enumeration or of the final persistence aborts the invocation:
\* no later step runs, and the result returned to the caller is flagged as an
\* error and carries the upstream error message.
C20_CriticalFailureAborts ==
    [][\A i \in Inv : inv[i].op = "full_setup" =>
        \* the validation or the enumeration ends the invocation
        /\ (inv[i].pc \in {"user", "teams"} /\ inv'[i].pc = "done"
              /\ inv'[i].result.kind # "NoWorkspaces") =>
                /\ inv'[i].result.isError
                /\ inv'[i].result.msg \in UpstreamMessages(inv[i].pend)
                /\ inv'[i].pend = inv[i].pend
                /\ ~inv'[i].wrote /\ inv'[i].config = NoRecord
                /\ file' = file
        \* the validation or the enumeration lets it go on: it was answered
        /\ (inv[i].pc = "user" /\ inv'[i].pc \notin {"user", "done"}) =>
                inv'[i].user # NoUser /\ inv[i].pend.sent
        /\ (inv[i].pc = "teams" /\ inv'[i].pc \notin {"teams", "done"}) =>
                inv'[i].ws # NoWorkspace /\ inv[i].pend.sent
        \* the save ends the invocation: as configured, or with the error
        /\ CallsSave(i) =>
                \/ /\ inv'[i].result.kind = "Configured"
                   /\ LoadConfig(file') = [some |-> TRUE, rec |-> inv'[i].config]
                \/ /\ inv'[i].result.isError
                   /\ inv'[i].result.kind = "SaveFailed"
                   /\ inv'[i].result.msg = "<errno>"
                   /\ ~LoadConfig(file').some \/ file' = file
        \* an invocation that has ended takes no further step
        /\ inv[i].pc = "done" => inv'[i] \in {inv[i], Idle}]_vars

\* a full setup has ended with the error of a rejected workspace enumeration
C20_Witness ==
    \E i \in Inv :
        /\ inv[i].op = "full_setup" /\ inv[i].pc = "done"
        /\ inv[i].pend.ep = "getTeams" /\ inv[i].user # NoUser
        /\ inv[i].result.isError
        /\ inv[i].result.msg = "ClickUp API <status>"

----------------------------------------------------------------------------
(* Two server processes on one config.json: slot 1 is a handler of this
   process, slot 2 a handler of the other one. Inside one process
   writeFileSync runs in one piece; to the other process its open (which
   truncates the file) and its write are two events. *)

\* stepSave up to the open of writeFileSync: the file is there and empty
StepSaveOpen(i, p) ==
    /\ Free(i)
    /\ ~Truthy(p.api_key) /\ p.step = "save"
    /\ LET existing == LoadConfig(file)
           st == Begin(i, "save", p)
       IN IF ~existing.some
          THEN /\ SetInv(i, Return(st, Text("NotConfigured")))
               /\ UNCHANGED file
          ELSE /\ file' = FileCorrupt
               /\ SetInv(i, [st EXCEPT !.pc = "writing",
                                       !.config = MergeConfig(existing.rec, p)])
    /\ UNCHANGED <<env, override>>

\* the write and the close of writeFileSync; stepSave returns
StepSaveWrite(i) ==
    /\ inv[i].op = "save" /\ inv[i].pc = "writing"
    /\ file' = SaveConfig(inv[i].config)
    /\ SetInv(i, Return([inv[i] EXCEPT !.wrote = TRUE], Text("Saved")))
    /\ UNCHANGED <<env, override, started>>

InitProc ==
    /\ file \in {SaveConfig(BuildConfig(p, UserOf(p.api_key), TeamsOf(p.api_key)[1])) :
                    p \in OnbSetupParams}
    /\ env \in {Null, "KE"}
    /\ override = Null
    /\ started = 0
    /\ inv = [i \in {1, 2} |-> Idle]

NextProc ==
    \/ \E p \in OnbSaveParams : StepSaveOpen(1, p)
    \/ StepSaveWrite(1)
    \/ \E p \in ReconfigureParams : StepReconfigure(2, p)
    \/ \E i \in Inv : Respond(i)

SpecProc == InitProc /\ [][NextProc]_vars

\* C21: save(record) replaces the whole prior content and is atomic to
\* readers: a load by a concurrent invocation or process never observes a
\* partially written file, one that is neither the prior record nor the new
\* one, such as a file load() reports as absent.
C21_SaveAtomicToReaders ==
    [][\A i, j \in Inv :
        (/\ inv[i].op = "save" /\ inv[i].pc = "writing"
         /\ inv[j].op = "idle" /\ inv'[j].op = "reconfigure")
            => inv'[j].result.kind = "ConfigShown"]_vars

----------------------------------------------------------------------------
(* The override under overlapping full setups *)

\* C22: the override is one variable of the process, read anew by every
\* call: each remote call of a full setup carries the override as it is when
\* the call is issued, whoever wrote it last. So with two overlapping full
\* setups of different credentials an interleaving is reachable in which a
\* call of one is sent with the credential of the other, or with no override
\* after the other has cleared it.
C22_OverrideIsShared ==
    [][\A i \in Inv :
        (inv'[i].op = "full_setup" /\ inv'[i].pc # "done"
           /\ inv'[i].pend # inv[i].pend) =>
            /\ inv'[i].pend.ov = override'
            /\ inv'[i].pend.cred = Preferred(inv'[i].pend)]_vars

\* two full setups of different credentials are in flight, and the call the
\* first one is waiting for was sent with the credential of the second
C22_Witness ==
    \E i, j \in Inv :
        /\ inv[i].op = "full_setup" /\ inv[j].op = "full_setup"
        /\ inv[i].pc \notin {"user", "done"} /\ inv[j].pc # "done"
        /\ inv[i].p.api_key # inv[j].p.api_key
        /\ inv[i].pend.sent
        /\ inv[i].pend.cred = inv[j].p.api_key

----------------------------------------------------------------------------
(* Overlapping writers *)

\* C23: when onboarding invocations that write the configuration overlap,
\* the file holds exactly the record passed to the last save executed: every
\* change of the file is the write of one invocation, of the whole record it
\* built, whatever another invocation holds or has written; nothing waits
\* for another writer, and no mixture of two records is persisted.
C23_LastWriteWins ==
    [][file' # file =>
        \E i \in Inv :
            /\ CallsSave(i)
            /\ \A j \in Inv \ {i} : inv'[j] = inv[j]
            /\ \/ inv'[i].wrote /\ file' = SaveConfig(inv'[i].config)
               \/ inv'[i].result.kind = "SaveFailed" /\ ~LoadConfig(file').some]_vars

\* a save step wrote while a full setup was in flight, the full setup wrote
\* after it, and the file is the full setup's record
C23_Witness ==
    /\ started = 2
    /\ inv[1].op = "full_setup" /\ inv[1].result.kind = "Configured"
    /\ inv[2].op = "save" /\ inv[2].result.kind = "Saved"
    /\ inv[2].config.default_list_id = "L0"
    /\ file = SaveConfig(inv[1].config)
    /\ file # SaveConfig(inv[2].config)

----------------------------------------------------------------------------
(* The default due date *)

\* C24: in task creation with no explicit due date, for every persisted
\* value of defaults.due_date_offset_days that is set, the request carries a
\* due date equal to the current time advanced by that many days with the
\* time of day 23:59:59.000; the due date is absent only when the offset is
\* not set.
C24_DueDateFromOffset ==
    \A i \in Inv : (Resolved(inv[i]) /\ ~Truthy(inv[i].p.due_date)) =>
        LET cfg == LoadConfig(file)
            d == IF cfg.some THEN cfg.rec.defaults ELSE NoDefaults
        IN inv[i].body.due_date =
              IF IsSome(d.due_date_offset_days)
              THEN Some(EndOfDayAfter(inv[i].p.now, Val(d.due_date_offset_days)))
              ELSE None

----------------------------------------------------------------------------
(* Document pages *)

\* a page text is the sequence of its pieces (the empty string is <<>>); an
\* optional text is None when undefined
Blank == "\n\n"

TextTruthy(o) == IsSome(o) /\ Val(o) # <<>>

\* the pages the remote API holds: one with content, one whose answer has no
\* content property
PageOf(page_id) ==
    IF page_id = "P1" THEN [id |-> "P1", content |-> Some(<<"old">>)]
    ELSE [id |-> page_id, content |-> None]

\* const body = {}; if (params.title) ...; if (finalContent !== undefined) ...
PageBody(p, finalContent) ==
    [title |-> IF Truthy(p.title) THEN p.title ELSE Undef, content |-> finalContent]

\* clickup_update_document_page up to its first await: the read of the page
\* in append and prepend mode with content, the update otherwise
UpdatePageStart(i, p) ==
    /\ Free(i)
    /\ LET workspaceId == Or(p.workspace_id, OptField(LoadConfig(file), "workspace_id"))
           st == Begin(i, "update_page", p)
       IN IF ~Truthy(workspaceId)
          THEN SetInv(i, Return(st, [kind |-> "NoWorkspaceConfigured", isError |-> TRUE,
                                     msg |-> "Run clickup_onboarding."]))
          ELSE IF TextTruthy(p.content) /\ p.content_edit_mode \in {"append", "prepend"}
          THEN SetInv(i, Await(st, "read",
                               IssueApi("getDocPage", p.page_id, override, file)))
          ELSE SetInv(i, Await([st EXCEPT !.body = PageBody(p, p.content)], "update",
                               IssueApi("updateDocPage", p.page_id, override, file)))
    /\ UNCHANGED <<file, env, override>>

\* the answer to getDocPage: the content joined in the order of the mode; a
\* rejection is caught and finalContent stays params.content; then the update
UpdatePageRead(i) ==
    /\ inv[i].op = "update_page" /\ inv[i].pc = "read"
    /\ \E o \in Outcomes(inv[i].pend) :
        LET p == inv[i].p
            existing == PageOf(p.page_id)
            existingContent == IF TextTruthy(existing.content)
                               THEN Val(existing.content) ELSE <<>>
            finalContent ==
                IF o # "ok" THEN p.content
                ELSE IF p.content_edit_mode = "append"
                THEN Some(existingContent \o <<Blank>> \o Val(p.content))
                ELSE Some(Val(p.content) \o <<Blank>> \o existingContent)
            st == Fetched(inv[i], o = "ok")
        IN SetInv(i, Await([st EXCEPT !.body = PageBody(p, finalContent)], "update",
                           IssueApi("updateDocPage", p.page_id, override, file)))
    /\ UNCHANGED <<file, env, override, started>>

\* the answer to updateDocPage; a rejection leaves the handler, and the host
\* reports it as an error result
UpdatePageResponse(i) ==
    /\ inv[i].op = "update_page" /\ inv[i].pc = "update"
    /\ \E o \in Outcomes(inv[i].pend) :
        SetInv(i, Return(Fetched(inv[i], o = "ok"),
                         IF o = "ok" THEN Text("PageUpdated")
                         ELSE ErrorResult(ErrorOf(inv[i].pend, o))))
    /\ UNCHANGED <<file, env, override, started>>

\* the parameters the host sends to clickup_update_document_page
PageParams ==
    [page_id : {"P1", "P2"}, title : {Undef, "T"},
     content : {None, Some(<<>>), Some(<<"new">>)},
     content_edit_mode : {"replace", "append", "prepend"},
     workspace_id : {Undef, "W1"}]

\* the document and chat tools, one invocation at a time
InitDoc ==
    /\ file \in {FileMissing} \cup {SaveConfig(r) : r \in EarlierRecords}
    /\ env \in {Null, "KE"}
    /\ override = Null
    /\ started = 0
    /\ inv = [i \in {1} |-> Idle]

NextDoc ==
    \/ \E i \in Inv, p \in PageParams : UpdatePageStart(i, p)
    \/ \E i \in Inv : UpdatePageRead(i)
    \/ \E i \in Inv : UpdatePageResponse(i)
    \/ \E i \in Inv, p \in ChatParams : ChatStart(i, "chat_channels", p)
    \/ \E i \in Inv : ChatChannelsResponse(i)
    \/ \E i \in Inv : Respond(i)

SpecDoc == InitDoc /\ [][NextDoc]_vars

\* C25: every remote call is attempted at most once per tool invocation, and
\* outside the per-branch fetches of hierarchy discovery a failed remote call
\* makes the enclosing tool invocation fail at once: it returns an error
\* result and issues no further remote call.
C25_FailedCallFailsInvocation ==
    [][\A i \in Inv :
        (inv[i].op \in {"update_page", "chat_channels"}
            /\ inv[i].pc \notin {"idle", "done"} /\ inv'[i] # inv[i]) =>
           /\ inv'[i].pc # "done" =>
                ~Attempted(inv'[i], inv'[i].pend.ep, inv'[i].pend.arg)
           /\ (\/ /\ Len(inv'[i].fetched) > Len(inv[i].fetched)
                  /\ ~inv'[i].fetched[Len(inv'[i].fetched)].ok
               \/ inv'[i].result.kind \in {"RemoteCallFailed", "NotConfigured"})
                 => (inv'[i].pc = "done" /\ inv'[i].result.isError)]_vars

\* C26: clickup_update_document_page in append mode writes the existing
\* content of the page followed by the new content, in prepend mode the new
\* content followed by the existing content, and in replace mode the new
\* content alone: the existing content is never lost in append and prepend
\* mode.
C26_AppendKeepsExisting ==
    \A i \in Inv :
        (inv[i].op = "update_page" /\ inv[i].pc = "update" /\ IsSome(inv[i].p.content)) =>
            LET p == inv[i].p
                old == Coalesce(PageOf(p.page_id).content, <<>>)
            IN inv[i].body.content =
                 CASE p.content_edit_mode = "append" -> Some(old \o <<Blank>> \o Val(p.content))
                   [] p.content_edit_mode = "prepend" -> Some(Val(p.content) \o <<Blank>> \o old)
                   [] OTHER -> p.content

----------------------------------------------------------------------------
(* The record of a full setup *)

\* C27: in every record persisted by a full setup, under every interleaving
\* of concurrent tool invocations, the identity fields and the workspace
\* fields are those the remote API returns for the credential stored in the
\* api_key of that same record.
C27_RecordOfOneCredential ==
    \A i \in Inv :
        (inv[i].op = "full_setup" /\ inv[i].result.kind = "Configured") =>
            LET config == inv[i].config
                user == UserOf(config.api_key)
                teams == TeamsOf(config.api_key)
            IN /\ config.user_id = String(user.id)
               /\ config.user_name = user.username
               /\ config.user_email = user.email
               /\ \E k \in DOMAIN teams : /\ config.workspace_id = teams[k].id
                                          /\ config.workspace_name = teams[k].name

----------------------------------------------------------------------------
(* The workspace of the record *)

\* the workspaces the remote API knows, over every credential
Workspaces == UNION {{TeamsOf(k)[n] : n \in DOMAIN TeamsOf(k)} : k \in Keys \cup {"KE"}}

\* C28: after every onboarding operation that writes the configuration, the
\* persisted workspace_name is the name of the workspace identified by the
\* persisted workspace_id; a save step that supplies a new workspace_id does
\* not leave the name of the previous workspace in the record.
C28_WorkspaceNameOfId ==
    [][\A i \in Inv :
        (CallsSave(i) /\ inv'[i].wrote /\ LoadConfig(file').some) =>
            LET rec == LoadConfig(file').rec
            IN \E w \in Workspaces : /\ w.id = rec.workspace_id
                                     /\ w.name = rec.workspace_name]_vars

----------------------------------------------------------------------------
(* Overlapping save steps *)

\* save steps that supply different fields
TwoSaveParams ==
    {[NoParams EXCEPT !.step = "save", !.list_id = "L0"],
     [NoParams EXCEPT !.step = "save", !.priority = Some(1)]}

SaveSetupParams ==
    {[NoParams EXCEPT !.api_key = "K1"],
     [NoParams EXCEPT !.api_key = "K1", !.list_id = "L9", !.list_name = "Nine"]}

\* one server process after K1's first full setup
InitSave ==
    /\ file = SaveConfig(BuildConfig([NoParams EXCEPT !.api_key = "K1"],
                                     UserOf("K1"), TeamsOf("K1")[1]))
    /\ env \in {Null, "KE"}
    /\ override = Null
    /\ started = 0
    /\ inv = [i \in {1, 2} |-> Idle]

NextSave ==
    \/ \E i \in Inv, p \in SaveSetupParams : FullSetupStart(i, p)
    \/ \E i \in Inv : FullSetupUser(i)
    \/ \E i \in Inv : FullSetupTeams(i)
    \/ \E i \in Inv : FullSetupSpaces(i)
    \/ \E i \in Inv : FullSetupFolderless(i)
    \/ \E i \in Inv : FullSetupFolders(i)
    \/ \E i \in Inv : FullSetupLists(i)
    \/ \E i \in Inv, p \in TwoSaveParams : StepSave(i, p)
    \/ \E i \in Inv : Respond(i)

SpecSave == InitSave /\ [][NextSave]_vars

\* the record holds what the save step with parameters p supplied
HoldsUpdate(rec, p) ==
    /\ Truthy(p.list_id) => rec.default_list_id = p.list_id
    /\ IsSome(p.priority) => rec.defaults.priority = p.priority

\* C29: the save step loads, merges and writes without a suspension point,
\* so the record it writes holds the fields it supplied, and the record
\* keeps them through every later step, the save step of an overlapping
\* invocation included; the update of a save step is lost only in the step
\* in which a full setup writes its record.
C29_NoLostUpdateBetweenSaves ==
    [][\A j \in Inv :
        /\ (CallsSave(j) /\ inv'[j].result.kind = "Saved")
              => HoldsUpdate(LoadConfig(file').rec, inv'[j].p)
        /\ (/\ inv[j].op = "save" /\ inv[j].result.kind = "Saved" /\ inv'[j] = inv[j]
            /\ LoadConfig(file).some /\ HoldsUpdate(LoadConfig(file).rec, inv[j].p)
            /\ LoadConfig(file').some /\ ~HoldsUpdate(LoadConfig(file').rec, inv[j].p))
              => \E i \in Inv \ {j} : inv[i].op = "full_setup" /\ CallsSave(i)]_vars

\* two save steps have returned, one supplied the list and the other the
\* priority, and the record holds both
C29_Witness ==
    /\ \A j \in Inv : inv[j].op = "save" /\ inv[j].result.kind = "Saved"
    /\ inv[1].p # inv[2].p
    /\ LoadConfig(file).rec.default_list_id = "L0"
    /\ LoadConfig(file).rec.defaults.priority = Some(1)

----------------------------------------------------------------------------
(* The full setup replaces the record *)

\* C30: a successful full setup builds the persisted record without reading
\* the existing one: every top-level field is what the call and the remote
\* answers give, whatever record was on disk before, and default_list_id and
\* default_list_name are null whenever the call does not supply list_id and
\* list_name, even if a default list had been persisted before.
C30_SetupReplacesRecord ==
    [][\A i \in Inv :
        (CallsSave(i) /\ inv'[i].op = "full_setup" /\ inv'[i].result.kind = "Configured") =>
            LET rec == LoadConfig(file').rec
                p == inv'[i].p
                user == UserOf(p.api_key)
                ws == TeamsOf(p.api_key)[1]
            IN /\ rec.api_key = p.api_key
               /\ rec.workspace_id = ws.id /\ rec.workspace_name = ws.name
               /\ rec.user_id = String(user.id)
               /\ rec.user_name = user.username /\ rec.user_email = user.email
               /\ rec.default_list_id = IF Given(p.list_id) THEN p.list_id ELSE Null
               /\ rec.default_list_name = IF Given(p.list_name) THEN p.list_name ELSE Null
               /\ rec.defaults = [assignee_self |-> Some(TRUE), priority |-> Some(3),
                                  tags |-> Some(<<"via-claude">>),
                                  due_date_offset_days |-> Some(1)]]_vars

\* a save step had persisted a default list or a priority, a full setup
\* without them wrote after it, and the record no longer holds the update
C30_Witness ==
    \E i, j \in Inv :
        /\ inv[j].op = "save" /\ inv[j].result.kind = "Saved"
        /\ inv[i].op = "full_setup" /\ inv[i].result.kind = "Configured"
        /\ inv[i].p.list_id = Undef
        /\ file = SaveConfig(inv[i].config)
        /\ ~HoldsUpdate(LoadConfig(file).rec, inv[j].p)

====
